---- MODULE Spec2Model ----
(***************************************************************************)
(* Transaction reporter: the streaming aggregation pipeline of             *)
(* transaction_reporter.py (stream_transactions, generate_structured_      *)
(* report, generate_report, main) and the reader.py / aggregator.py        *)
(* pipeline (TransactionReader.read, Transaction, MetricsAggregator).      *)
(*                                                                         *)
(* A text value is a sequence of one-character strings.  A csv.DictReader  *)
(* row is a function from the header's field names to text values; a field *)
(* the physical row is too short to fill carries None (DictReader's        *)
(* restval), a column the header does not name is not in the row's domain. *)
(* A float is an exact reduced fraction <<numerator, denominator>>.        *)
(* Wall-clock durations (time.perf_counter) are not modelled.              *)
(*                                                                         *)
(* The aggregation variants of core.py, reporting/ and transactions/ run   *)
(* under SpecV, next to generate_structured_report once more, on amounts   *)
(* of any size: there an int is a pair of limbs and a float a 53-bit       *)
(* mantissa with an exponent, rounded as IEEE 754 binary64 rounds.         *)
(***************************************************************************)
EXTENDS Integers, Sequences, FiniteSets, TLC

\* Largest number of data rows a file is read to.
MaxRows == 2

----------------------------------------------------------------------------
\* Text values

Whitespace == {" "}
Digits == {"0", "1", "2", "3", "4", "5", "6", "7", "8", "9"}
DigitVal == [c \in Digits |->
               CASE c = "0" -> 0 [] c = "1" -> 1 [] c = "2" -> 2 [] c = "3" -> 3
                 [] c = "4" -> 4 [] c = "5" -> 5 [] c = "6" -> 6 [] c = "7" -> 7
                 [] c = "8" -> 8 [] c = "9" -> 9]

\* The value of a field the physical row did not supply (Python None).
None == <<"None">>

RECURSIVE LStrip(_)
LStrip(s) == IF s # <<>> /\ s[1] \in Whitespace THEN LStrip(Tail(s)) ELSE s

RECURSIVE RStrip(_)
RStrip(s) == IF s # <<>> /\ s[Len(s)] \in Whitespace
               THEN RStrip(SubSeq(s, 1, Len(s) - 1)) ELSE s

\* str.strip()
Strip(s) == RStrip(LStrip(s))

\* The part of an int() literal after the optional sign.
IntBody(s) == LET t == Strip(s) IN
                IF t # <<>> /\ t[1] \in {"+", "-"} THEN Tail(t) ELSE t

\* int(s) succeeds: optional sign, digits, single underscores between digits.
IntValid(s) == LET b == IntBody(s) IN
                 /\ b # <<>>
                 /\ \A i \in 1..Len(b) :
                      \/ b[i] \in Digits
                      \/ /\ b[i] = "_"
                         /\ 1 < i /\ i < Len(b)
                         /\ b[i - 1] \in Digits /\ b[i + 1] \in Digits

RECURSIVE DigitsValue(_, _)
DigitsValue(b, acc) == IF b = <<>> THEN acc
                       ELSE IF b[1] = "_" THEN DigitsValue(Tail(b), acc)
                       ELSE DigitsValue(Tail(b), 10 * acc + DigitVal[b[1]])

\* The value int(s) returns when it succeeds.
IntValue(s) == LET t == Strip(s) IN
                 IF t # <<>> /\ t[1] = "-" THEN 0 - DigitsValue(IntBody(s), 0)
                 ELSE DigitsValue(IntBody(s), 0)

RECURSIVE GCD(_, _)
GCD(a, b) == IF b = 0 THEN a ELSE GCD(b, a % b)

Abs(a) == IF a < 0 THEN 0 - a ELSE a

\* The float literal 0.0
ZeroFloat == <<0, 1>>

\* Python true division a / b of two ints, b > 0.
TrueDiv(a, b) == LET g == GCD(Abs(a), b) IN <<a \div g, b \div g>>

----------------------------------------------------------------------------
\* Input files

completed_lit == <<"c", "o", "m", "p", "l", "e", "t", "e", "d">>
failed_lit == <<"f", "a", "i", "l", "e", "d">>

\* Raw status cells a file may hold.
StatusRaws == { completed_lit, failed_lit,
                <<" ">> \o completed_lit \o <<" ">>,
                <<"p", "e", "n", "d", "i", "n", "g">>,
                <<>> }

\* Raw amount_cents cells a file may hold.
AmountRaws == { <<"5">>, <<"-", "2">>, <<" ", "1", " ">>,
                <<"f", "o", "o">>, <<>> }

\* Header rows a file may have.
Headers == { <<"amount_cents", "status">>, <<"status", "amount_cents">>,
             <<"status">>, <<"amount_cents">> }

\* The file at csv_path: missing, zero bytes (no header row), or a header.
Files == [exists : {FALSE}, fieldnames : {<<>>}]
           \cup [exists : {TRUE}, fieldnames : Headers \cup {<<>>}]

RawsOf(name) == IF name = "status" THEN StatusRaws ELSE AmountRaws

\* The non-blank physical rows that fit under a header.
CellsFor(fieldnames) ==
  UNION { { c \in [1..n -> StatusRaws \cup AmountRaws] :
              \A i \in 1..n : c[i] \in RawsOf(fieldnames[i]) }
          : n \in 1..Len(fieldnames) }

FieldIndex(fieldnames, k) == CHOOSE i \in 1..Len(fieldnames) : fieldnames[i] = k

\* csv.DictReader: the dict of one physical row; short rows fill with None.
DictRow(fieldnames, cells) ==
  [k \in {fieldnames[i] : i \in 1..Len(fieldnames)} |->
     IF FieldIndex(fieldnames, k) <= Len(cells)
       THEN cells[FieldIndex(fieldnames, k)] ELSE None]

\* dict.get(key, default)
Get(r, key, default) == IF key \in DOMAIN r THEN r[key] ELSE default

NoRow == [k \in {} |-> <<>>]

----------------------------------------------------------------------------
\* State

VARIABLES
  csv_file,              \* the file at csv_path
  entry,                 \* the function the caller invoked
  args_format,           \* args.format of main
  pc,                    \* position of the run
  f,                     \* the file handle: "unopened", "open", "closed"
  row,                   \* the row the source last yielded
  consumed,              \* every row the source has yielded, in order
  rows, invalid_amounts, completed, failed,
  sum_completed_amount, sum_all_amount,   \* locals of generate_structured_report
  exc,                   \* the exception raised inside the pass, "none" if none
  structured,            \* what generate_structured_report returned
  result,                \* what generate_report returned
  stdout,                \* what main printed
  exit_code,             \* what main returned
  agg,                   \* the MetricsAggregator
  metrics,               \* what MetricsAggregator.get_metrics returned
  full_report,           \* what MetricsAggregator.get_full_report returned
  loc,                   \* the locals of the aggregation variant that runs
  obs,                   \* the observability dict the reporting package shares
  report                 \* what the aggregation variant returned

vars == <<csv_file, entry, args_format, pc, f, row, consumed,
          rows, invalid_amounts, completed, failed,
          sum_completed_amount, sum_all_amount,
          exc, structured, result, stdout, exit_code, agg, metrics,
          full_report, loc, obs, report>>

counters == <<rows, invalid_amounts, completed, failed,
              sum_completed_amount, sum_all_amount>>

outputs == <<structured, result, stdout, exit_code, metrics, full_report>>

\* The state of the aggregation variants of core.py, reporting/ and
\* transactions/.
variant_vars == <<loc, obs, report>>

ReporterEntries == {"main", "generate_report", "generate_structured_report"}

\* Where an exception raised inside the pass lands: main has a try block.
RaiseTo == IF entry = "main" THEN "except" ELSE "raised"

----------------------------------------------------------------------------
\* transaction_reporter.py

\* AmountOf with the sign of the amount flipped.
AmountOf_Negated(amount_raw) ==
  IF IntValid(amount_raw)
    THEN [amount |-> 0 - IntValue(amount_raw), invalid |-> 0]
    ELSE [amount |-> 0, invalid |-> 1]

\* AmountOf with the sign of the amount dropped.
AmountOf_Abs(amount_raw) ==
  IF IntValid(amount_raw)
    THEN [amount |-> Abs(IntValue(amount_raw)), invalid |-> 0]
    ELSE [amount |-> 0, invalid |-> 1]

\* The try/except around int(amount_raw).
AmountOf(amount_raw) ==
  IF IntValid(amount_raw)
    THEN [amount |-> IntValue(amount_raw), invalid |-> 0]
    ELSE [amount |-> 0, invalid |-> 1]

\* StatusBranch with the elif turned into an else.
StatusBranch_ElseFailed(status) ==
  IF status = completed_lit THEN [completed |-> 1, failed |-> 0]
  ELSE [completed |-> 0, failed |-> 1]

\* StatusBranch with the elif turned into an independent, inverted test.
StatusBranch_IndependentIf(status) ==
  [completed |-> IF status = completed_lit THEN 1 ELSE 0,
   failed |-> IF status # failed_lit THEN 1 ELSE 0]

\* The if/elif on status: the increments of completed and failed.
StatusBranch(status) ==
  IF status = completed_lit THEN [completed |-> 1, failed |-> 0]
  ELSE IF status = failed_lit THEN [completed |-> 0, failed |-> 1]
  ELSE [completed |-> 0, failed |-> 0]

\* AvgAmount with the guard off by one.
AvgAmount_OffByOne(sum_all, n) ==
  IF n > 1 THEN TrueDiv(sum_all, n) ELSE ZeroFloat

\* avg_amount = sum_all_amount / rows if rows > 0 else 0.0
AvgAmount(sum_all, n) == IF n > 0 THEN TrueDiv(sum_all, n) ELSE ZeroFloat

\* StructuredReport with sum_all_amount exposed among the metrics.
StructuredReport_SumInMetrics(n, c, fl, sc, sa, inv) ==
  [metrics |-> [total_rows |-> n, completed |-> c, failed |-> fl,
                sum_completed_amount |-> sc, avg_amount |-> AvgAmount(sa, n),
                sum_all_amount |-> sa],
   observability |-> [rows_read |-> n, invalid_amounts |-> inv]]

\* The dict generate_structured_report returns.
StructuredReport(n, c, fl, sc, sa, inv) ==
  [metrics |-> [total_rows |-> n, completed |-> c, failed |-> fl,
                sum_completed_amount |-> sc, avg_amount |-> AvgAmount(sa, n)],
   observability |-> [rows_read |-> n, invalid_amounts |-> inv]]

\* _format_text_report: the five metric lines under the title.
FormatTextReport(m) ==
  [tag |-> "Transaction report:",
   payload |-> <<[total_rows |-> m.total_rows, completed |-> m.completed,
                  failed |-> m.failed,
                  sum_completed_amount |-> m.sum_completed_amount,
                  avg_amount |-> m.avg_amount]>>]

\* _format_json_report: the whole structure.
FormatJsonReport(s) == [tag |-> "json", payload |-> <<s>>]

\* The --format choices argparse accepts.
FormatChoices == {"text", "json"}

\* MainExitCode with the generic except clause placed first.
MainExitCode_GenericFirst(e) == 3

\* MainExitCode with a generic failure reported as success.
MainExitCode_Swallowed(e) == IF e = "FileNotFoundError" THEN 2 ELSE 0

\* The except clauses of main.
MainExitCode(e) == IF e = "FileNotFoundError" THEN 2 ELSE 3

MainErrorMessage(e) ==
  [tag |-> IF e = "FileNotFoundError" THEN "Error: file not found"
           ELSE "Error while processing",
   payload |-> <<>>]

\* The state before any call, whatever the file.
InitRest ==
  /\ entry = "none"
  /\ args_format = "none"
  /\ pc = "Idle"
  /\ f = "unopened"
  /\ row = NoRow
  /\ consumed = <<>>
  /\ rows = 0 /\ invalid_amounts = 0 /\ completed = 0 /\ failed = 0
  /\ sum_completed_amount = 0 /\ sum_all_amount = 0
  /\ exc = "none"
  /\ structured = <<>>
  /\ result = <<>>
  /\ stdout = <<>>
  /\ exit_code = <<>>
  /\ agg = [total_rows |-> 0, completed |-> 0, failed |-> 0,
            sum_completed_amount |-> 0, sum_all_amount |-> 0,
            transactions_processed |-> 0]
  /\ metrics = <<>>
  /\ full_report = <<>>
  /\ loc = <<>>
  /\ obs = <<>>
  /\ report = <<>>

Init ==
  /\ csv_file \in Files
  /\ InitRest

\* A caller invokes generate_structured_report(csv_path).
CallGenerateStructuredReport ==
  /\ pc = "Idle"
  /\ entry' = "generate_structured_report"
  /\ pc' = "open"
  /\ UNCHANGED <<variant_vars, csv_file, args_format, f, row, consumed,
                 counters, exc,
                 outputs, agg>>

\* A caller invokes generate_report(csv_path), which delegates.
CallGenerateReport ==
  /\ pc = "Idle"
  /\ entry' = "generate_report"
  /\ pc' = "open"
  /\ UNCHANGED <<variant_vars, csv_file, args_format, f, row, consumed,
                 counters, exc,
                 outputs, agg>>

\* main([]): usage message, exit code 1.
MainNoArgs ==
  /\ pc = "Idle"
  /\ entry' = "main"
  /\ stdout' = Append(stdout, [tag |-> "Usage", payload |-> <<>>])
  /\ exit_code' = <<1>>
  /\ pc' = "returned"
  /\ UNCHANGED <<variant_vars, csv_file, args_format, f, row, consumed,
                 counters, exc,
                 structured, result, agg, metrics, full_report>>

\* main([csv_path, "--format", fmt]): argparse rejects a format outside the
\* choices by raising SystemExit(2); otherwise main enters its try block.
MainParseArgs ==
  /\ pc = "Idle"
  /\ \E fmt \in {"text", "json", "xml"} :
       /\ entry' = "main"
       /\ args_format' = fmt
       /\ IF fmt \in FormatChoices
            THEN pc' = "open" /\ exc' = exc
            ELSE pc' = "raised" /\ exc' = "SystemExit"
  /\ UNCHANGED <<variant_vars, csv_file, f, row, consumed, counters, outputs,
                 agg>>

\* GeneratorClose that leaves the file open.
GeneratorClose_Leak(h) == h

\* A suspended generator is finalised: GeneratorExit is raised at its yield
\* and the with block closes the file.
GeneratorClose(h) == IF h = "open" THEN "closed" ELSE h

\* stream_transactions up to the first row: open(csv_path), csv.DictReader.
Open ==
  /\ pc = "open"
  /\ IF csv_file.exists
       THEN f' = "open" /\ pc' = "stream" /\ exc' = exc
       ELSE f' = f /\ pc' = RaiseTo /\ exc' = "FileNotFoundError"
  /\ UNCHANGED <<variant_vars, csv_file, entry, args_format, row, consumed,
                 counters,
                 outputs, agg>>

\* for row in reader: yield row
StreamYield ==
  /\ pc = "stream"
  /\ Len(consumed) < MaxRows
  /\ \E cells \in CellsFor(csv_file.fieldnames) :
       /\ row' = DictRow(csv_file.fieldnames, cells)
       /\ consumed' = Append(consumed, row')
  /\ pc' = "body"
  /\ UNCHANGED <<variant_vars, csv_file, entry, args_format, f, counters,
                 exc, outputs, agg>>

\* The reader is exhausted: the with block closes the file.
StreamExhausted ==
  /\ pc = "stream"
  /\ f' = "closed"
  /\ pc' = "finalize"
  /\ UNCHANGED <<variant_vars, csv_file, entry, args_format, row, consumed,
                 counters, exc,
                 outputs, agg>>

\* The body of the loop of generate_structured_report for one row.
LoopBody ==
  /\ pc = "body"
  /\ rows' = rows + 1
  /\ LET status_raw == Get(row, "status", <<>>)
         amount_field == Get(row, "amount_cents", <<"0">>)
     IN IF status_raw = None \/ amount_field = None
          THEN \* None.strip() raises AttributeError; unwinding the frame
               \* drops the suspended generator, which closes the file
               /\ exc' = "AttributeError"
               /\ pc' = RaiseTo
               /\ f' = GeneratorClose(f)
               /\ UNCHANGED <<invalid_amounts, completed, failed,
                              sum_completed_amount, sum_all_amount>>
          ELSE LET status == Strip(status_raw)
                   a == AmountOf(Strip(amount_field))
                   b == StatusBranch(status)
               IN /\ invalid_amounts' = invalid_amounts + a.invalid
                  /\ sum_all_amount' = sum_all_amount + a.amount
                  /\ completed' = completed + b.completed
                  /\ sum_completed_amount' =
                       sum_completed_amount + b.completed * a.amount
                  /\ failed' = failed + b.failed
                  /\ exc' = exc
                  /\ pc' = "stream"
                  /\ f' = f
  /\ UNCHANGED <<variant_vars, csv_file, entry, args_format, row, consumed,
                 outputs, agg>>

\* After the loop: avg_amount and the returned dict.
Finalize ==
  /\ pc = "finalize"
  /\ structured' = <<StructuredReport(rows, completed, failed,
                                      sum_completed_amount, sum_all_amount,
                                      invalid_amounts)>>
  /\ pc' = IF entry = "generate_structured_report" THEN "returned" ELSE "caller"
  /\ UNCHANGED <<variant_vars, csv_file, entry, args_format, f, row,
                 consumed, counters, exc,
                 result, stdout, exit_code, agg, metrics, full_report>>

\* generate_report: return structured["metrics"]
GenerateReportReturn ==
  /\ pc = "caller"
  /\ entry = "generate_report"
  /\ result' = <<structured[1].metrics>>
  /\ pc' = "returned"
  /\ UNCHANGED <<variant_vars, csv_file, entry, args_format, f, row,
                 consumed, counters, exc,
                 structured, stdout, exit_code, agg, metrics, full_report>>

\* main after the try block: print the report, return 0.
MainPrint ==
  /\ pc = "caller"
  /\ entry = "main"
  /\ stdout' = Append(stdout,
                      IF args_format = "text"
                        THEN FormatTextReport(structured[1].metrics)
                        ELSE FormatJsonReport(structured[1]))
  /\ exit_code' = <<0>>
  /\ pc' = "returned"
  /\ UNCHANGED <<variant_vars, csv_file, entry, args_format, f, row,
                 consumed, counters, exc,
                 structured, result, agg, metrics, full_report>>

\* main's except clauses: print the error, return 2 or 3.
MainExcept ==
  /\ pc = "except"
  /\ stdout' = Append(stdout, MainErrorMessage(exc))
  /\ exit_code' = <<MainExitCode(exc)>>
  /\ pc' = "returned"
  /\ UNCHANGED <<variant_vars, csv_file, entry, args_format, f, row,
                 consumed, counters, exc,
                 structured, result, agg, metrics, full_report>>

----------------------------------------------------------------------------
\* reader.py and aggregator.py

\* Transaction.amount_cents, for a row whose amount_cents is not None.
TxAmountCents(r) ==
  LET raw == Strip(Get(r, "amount_cents", <<"0">>)) IN
    IF IntValid(raw) THEN IntValue(raw) ELSE 0

\* Transaction.status, for a row whose status is not None.
TxStatus(r) == Strip(Get(r, "status", <<>>))

\* AggStatusBranch taking a failed record back out of the count.
AggStatusBranch_Decrement(status) ==
  IF status = completed_lit THEN [completed |-> 1, failed |-> 0]
  ELSE IF status = failed_lit THEN [completed |-> 0, failed |-> 0 - 1]
  ELSE [completed |-> 0, failed |-> 0]

\* The if/elif of MetricsAggregator.process_transaction.
AggStatusBranch(status) ==
  IF status = completed_lit THEN [completed |-> 1, failed |-> 0]
  ELSE IF status = failed_lit THEN [completed |-> 0, failed |-> 1]
  ELSE [completed |-> 0, failed |-> 0]

\* MetricsAggregator.get_metrics
GetMetricsOf(a) ==
  [total_rows |-> a.total_rows, completed |-> a.completed,
   failed |-> a.failed, sum_completed_amount |-> a.sum_completed_amount,
   avg_amount |-> IF a.total_rows > 0
                    THEN TrueDiv(a.sum_all_amount, a.total_rows)
                    ELSE ZeroFloat]

\* A caller runs MetricsAggregator().process_transactions(
\* TransactionReader(csv_path).read()).
CallProcessTransactions ==
  /\ pc = "Idle"
  /\ entry' = "process_transactions"
  /\ pc' = "read_open"
  /\ UNCHANGED <<variant_vars, csv_file, args_format, f, row, consumed,
                 counters, exc,
                 outputs, agg>>

\* TransactionReader.read up to the first row: open, DictReader, the
\* fieldnames check (the with block closes the file when it raises).
ReadOpen ==
  /\ pc = "read_open"
  /\ IF ~csv_file.exists
       THEN f' = f /\ pc' = "raised" /\ exc' = "FileNotFoundError"
       ELSE IF csv_file.fieldnames = <<>>
         THEN f' = "closed" /\ pc' = "raised" /\ exc' = "ValueError"
         ELSE f' = "open" /\ pc' = "read_stream" /\ exc' = exc
  /\ UNCHANGED <<variant_vars, csv_file, entry, args_format, row, consumed,
                 counters,
                 outputs, agg>>

\* yield Transaction(row)
ReadYield ==
  /\ pc = "read_stream"
  /\ Len(consumed) < MaxRows
  /\ \E cells \in CellsFor(csv_file.fieldnames) :
       /\ row' = DictRow(csv_file.fieldnames, cells)
       /\ consumed' = Append(consumed, row')
  /\ pc' = "agg_body"
  /\ UNCHANGED <<variant_vars, csv_file, entry, args_format, f, counters,
                 exc, outputs, agg>>

\* The reader is exhausted: the with block closes the file and
\* process_transactions returns.
ReadExhausted ==
  /\ pc = "read_stream"
  /\ f' = "closed"
  /\ pc' = "agg_done"
  /\ UNCHANGED <<variant_vars, csv_file, entry, args_format, row, consumed,
                 counters, exc,
                 outputs, agg>>

\* MetricsAggregator.process_transaction(Transaction(row))
ProcessTransaction ==
  /\ pc = "agg_body"
  /\ LET counted == [agg EXCEPT !.total_rows = @ + 1,
                                !.transactions_processed = @ + 1]
     IN IF Get(row, "amount_cents", <<"0">>) = None
          THEN \* Transaction.amount_cents raises AttributeError
               /\ agg' = counted
               /\ exc' = "AttributeError"
               /\ pc' = "raised"
          ELSE LET amount == TxAmountCents(row)
                   summed == [counted EXCEPT !.sum_all_amount = @ + amount]
               IN IF Get(row, "status", <<>>) = None
                    THEN \* Transaction.status raises AttributeError
                         /\ agg' = summed
                         /\ exc' = "AttributeError"
                         /\ pc' = "raised"
                    ELSE LET b == AggStatusBranch(TxStatus(row)) IN
                         /\ agg' = [summed EXCEPT
                                      !.completed = @ + b.completed,
                                      !.sum_completed_amount =
                                         @ + b.completed * amount,
                                      !.failed = @ + b.failed]
                         /\ exc' = exc
                         /\ pc' = "read_stream"
  /\ UNCHANGED <<variant_vars, csv_file, entry, args_format, f, row,
                 consumed, counters,
                 outputs>>

\* The caller of process_transactions lets go of the exception it caught:
\* the traceback no longer holds the frame of process_transactions, whose
\* local `transactions` was the last reference to the generator of read().
ReleaseTraceback ==
  /\ pc = "raised"
  /\ entry = "process_transactions"
  /\ f = "open"
  /\ f' = GeneratorClose(f)
  /\ UNCHANGED <<variant_vars, csv_file, entry, args_format, pc, row, consumed,
                 counters, exc, outputs, agg>>

\* MetricsAggregator.get_metrics after the pass.
GetMetrics ==
  /\ pc = "agg_done"
  /\ metrics' = <<GetMetricsOf(agg)>>
  /\ pc' = "returned"
  /\ UNCHANGED <<variant_vars, csv_file, entry, args_format, f, row, consumed,
                 counters, exc, structured, result, stdout, exit_code, agg,
                 full_report>>

\* MetricsAggregator.get_full_report
GetFullReportOf(a) ==
  [metrics |-> GetMetricsOf(a),
   observability |-> [transactions_processed |-> a.transactions_processed]]

\* MetricsAggregator.get_full_report after the pass.
GetFullReport ==
  /\ pc = "agg_done"
  /\ full_report' = <<GetFullReportOf(agg)>>
  /\ pc' = "returned"
  /\ UNCHANGED <<variant_vars, csv_file, entry, args_format, f, row, consumed,
                 counters, exc, structured, result, stdout, exit_code, agg,
                 metrics>>

Next ==
  \/ CallGenerateStructuredReport
  \/ CallGenerateReport
  \/ MainNoArgs
  \/ MainParseArgs
  \/ Open
  \/ StreamYield
  \/ StreamExhausted
  \/ LoopBody
  \/ Finalize
  \/ GenerateReportReturn
  \/ MainPrint
  \/ MainExcept
  \/ CallProcessTransactions
  \/ ReadOpen
  \/ ReadYield
  \/ ReadExhausted
  \/ ProcessTransaction
  \/ ReleaseTraceback
  \/ GetMetrics
  \/ GetFullReport

Spec == Init /\ [][Next]_vars

----------------------------------------------------------------------------
\* Python numbers beyond the range of the integers above.  An int is a pair
\* <<h, l>> standing for h * Limb + l with 0 <= l < Limb; a float is a pair
\* <<m, e>> standing for m * 2^e with m an int of exactly 53 bits (IEEE 754
\* binary64, sys.float_info.mant_dig = 53), or FloatZero.

Limb == 67108864

BigNorm(h, l) == <<h + (l \div Limb), l % Limb>>

BigOf(n) == BigNorm(0, n)

BigZero == <<0, 0>>

BigAdd(a, b) == BigNorm(a[1] + b[1], a[2] + b[2])

BigNeg(a) == BigNorm(0 - a[1], 0 - a[2])

\* a * c for a small c >= 0
BigTimes(a, c) == BigNorm(a[1] * c, a[2] * c)

BigLess(a, b) == a[1] < b[1] \/ (a[1] = b[1] /\ a[2] < b[2])

\* Quotient and remainder of a >= 0 by a small n > 0.
BigDivMod(a, n) ==
  LET t == (a[1] % n) * Limb + a[2] IN
    [q |-> BigNorm(a[1] \div n, t \div n), r |-> t % n]

\* x * y for 0 <= x, y < 2 * Limb, by halves of 13 bits.
IntTimes(x, y) ==
  LET x1 == x \div 8192  x0 == x % 8192
      y1 == y \div 8192  y0 == y % 8192
      mid == x1 * y0 + x0 * y1
  IN BigNorm(x1 * y1 + (mid \div 8192), (mid % 8192) * 8192 + x0 * y0)

\* The digits of an int() literal, underscores dropped.
DigitsOf(s) == SelectSeq(IntBody(s), LAMBDA c : c \in Digits)

\* The value int(s) returns when it succeeds, for literals of up to 16
\* digits: the digits before the last eight times 10^8, plus the last eight.
BigIntValue(s) ==
  LET d == DigitsOf(s)
      n == Len(d)
      hi == IF n > 8 THEN DigitsValue(SubSeq(d, 1, n - 8), 0) ELSE 0
      lo == IF n > 8 THEN DigitsValue(SubSeq(d, n - 7, n), 0)
            ELSE DigitsValue(d, 0)
      v == BigAdd(IntTimes(hi, 100000000), BigOf(lo))
      t == Strip(s)
  IN IF t # <<>> /\ t[1] = "-" THEN BigNeg(v) ELSE v

\* 2^52 and 2^53: the 53-bit integers are those from Two52 up to Two53.
Two52 == <<Limb, 0>>
Two53 == <<2 * Limb, 0>>

FloatZero == <<BigZero, 0>>

\* p, q, e with p / q * 2^e unchanged and 2^52 <= p / q < 2^53; p is
\* doubled four times in one step while it is below 2^48 * q.
RECURSIVE Scale(_, _, _)
Scale(p, q, e) ==
  IF BigLess(p, <<(Limb \div 16) * q, 0>>) THEN Scale(BigTimes(p, 16), q, e - 4)
  ELSE IF BigLess(p, BigTimes(Two52, q)) THEN Scale(BigTimes(p, 2), q, e - 1)
  ELSE IF ~BigLess(p, BigTimes(Two53, q)) THEN Scale(p, 2 * q, e + 1)
  ELSE [p |-> p, q |-> q, e |-> e]

\* The float nearest to p / q for p > 0, ties to the even mantissa.
RoundPos(p, q) ==
  LET s == Scale(p, q, 0)
      d == BigDivMod(s.p, s.q)
      up == \/ 2 * d.r > s.q
            \/ (2 * d.r = s.q /\ d.q[2] % 2 = 1)
      m == IF up THEN BigAdd(d.q, BigOf(1)) ELSE d.q
  IN IF m = Two53 THEN <<Two52, s.e + 1>> ELSE <<m, s.e>>

\* The float nearest to a / n, n > 0: what Python's int / int returns.
BigTrueDiv(a, n) ==
  IF a = BigZero THEN FloatZero
  ELSE IF BigLess(a, BigZero)
    THEN LET r == RoundPos(BigNeg(a), n) IN <<BigNeg(r[1]), r[2]>>
    ELSE RoundPos(a, n)

\* float(a) for an int a
ToFloat(a) == BigTrueDiv(a, 1)

\* x / n for a float x and an int n > 0: IEEE division, correctly rounded.
FloatDivInt(x, n) ==
  IF x = FloatZero THEN FloatZero
  ELSE LET r == BigTrueDiv(x[1], n) IN <<r[1], r[2] + x[2]>>

----------------------------------------------------------------------------
\* The aggregation variants: core.py, reporting/ and transactions/, and
\* generate_structured_report once more, over amounts of any size.

\* Largest number of data rows a file is read to by an aggregation variant.
MaxVRows == 3

\* The amount 9007199254740993 = 2^53 + 1, which no float holds exactly.
LargeAmount == <<"9", "0", "0", "7", "1", "9", "9", "2",
                 "5", "4", "7", "4", "0", "9", "9", "3">>

VStatusRaws == { completed_lit, failed_lit,
                 <<"p", "e", "n", "d", "i", "n", "g">> }

VAmountRaws == { <<"-", "2">>, <<"0", "0">>, <<"f", "o", "o">>, <<>>,
                 LargeAmount }

VFiles == { [exists |-> FALSE, fieldnames |-> <<>>],
            [exists |-> TRUE, fieldnames |-> <<>>],
            [exists |-> TRUE, fieldnames |-> <<"amount_cents", "status">>] }

VRawsOf(name) == IF name = "status" THEN VStatusRaws ELSE VAmountRaws

VCellsFor(fieldnames) ==
  UNION { { c \in [1..n -> VStatusRaws \cup VAmountRaws] :
              \A i \in 1..n : c[i] \in VRawsOf(fieldnames[i]) }
          : n \in 1..Len(fieldnames) }

\* Milliseconds int((perf_counter() - start) * 1000) may come to.
ElapsedMs == {0, 1}

\* Python's `v or d` for a text value or None.
Or(v, d) == IF v = None \/ v = <<>> THEN d ELSE v

EmptyDict == [k \in {} |-> 0]

\* d[k] = v
DictSet(d, k, v) == [x \in DOMAIN d \cup {k} |-> IF x = k THEN v ELSE d[x]]

\* dict.setdefault(k, v)
SetDefault(d, k, v) == IF k \in DOMAIN d THEN d ELSE DictSet(d, k, v)

\* The locals every variant starts its loop with.
InitLocals ==
  [total_rows |-> 0, completed |-> 0, failed |-> 0,
   sum_completed_amount |-> BigZero, sum_all_amount |-> BigZero,
   invalid |-> 0]

\* sum_all_amount += amount and the if/elif on status, the same statements in
\* each variant; total_rows += 1 comes first in each loop.
Accumulate(l, status, amount) ==
  [l EXCEPT !.total_rows = @ + 1,
            !.sum_all_amount = BigAdd(@, amount),
            !.completed = @ + (IF status = completed_lit THEN 1 ELSE 0),
            !.sum_completed_amount =
               IF status = completed_lit THEN BigAdd(@, amount) ELSE @,
            !.failed = @ + (IF status = failed_lit THEN 1 ELSE 0)]

\* transaction_reporter.py: the try/except around int(amount_raw).
AmountOfBig(amount_raw) ==
  IF IntValid(amount_raw)
    THEN [amount |-> BigIntValue(amount_raw), invalid |-> 0]
    ELSE [amount |-> BigZero, invalid |-> 1]

\* transaction_reporter.py: the loop body for a row whose fields are text;
\* invalid is the local invalid_amounts.
ReporterStep(l, r) ==
  LET status == Strip(Get(r, "status", <<>>))
      a == AmountOfBig(Strip(Get(r, "amount_cents", <<"0">>)))
  IN [Accumulate(l, status, a.amount) EXCEPT !.invalid = @ + a.invalid]

\* transaction_reporter.py: avg_amount = sum_all_amount / rows, int by int.
ReporterAvg(l) ==
  IF l.total_rows > 0 THEN BigTrueDiv(l.sum_all_amount, l.total_rows)
  ELSE FloatZero

\* The five summary values of a variant whose avg_amount is avg.
SummaryOf(l, avg) ==
  [total_rows |-> l.total_rows, completed |-> l.completed,
   failed |-> l.failed, sum_completed_amount |-> l.sum_completed_amount,
   avg_amount |-> avg]

ReporterReport(l) ==
  [metrics |-> SummaryOf(l, ReporterAvg(l)),
   observability |-> [rows_read |-> l.total_rows,
                      invalid_amounts |-> l.invalid]]

\* core.py: _safe_int
SafeInt(value) == IF IntValid(value) THEN BigIntValue(value) ELSE BigZero

\* core.py: amount_raw as line 41 computes it.
CoreAmountRaw(r) == Strip(Or(Get(r, "amount_cents", None), <<"0">>))

\* core.py: if amount_raw and not amount and amount_raw != "0"
CoreInvalid(amount_raw, amount) ==
  IF amount_raw # <<>> /\ amount = BigZero /\ amount_raw # <<"0">>
    THEN 1 ELSE 0

\* core.py: the loop body of aggregate_transactions; invalid is the local
\* invalid_amounts.
CoreStep(l, r) ==
  LET status == Strip(Or(Get(r, "status", None), <<>>))
      amount_raw == CoreAmountRaw(r)
      amount == SafeInt(amount_raw)
  IN [Accumulate(l, status, amount) EXCEPT
        !.invalid = @ + CoreInvalid(amount_raw, amount)]

\* core.py: avg_amount = float(sum_all_amount) / total_rows
CoreAvg(l) ==
  IF l.total_rows > 0
    THEN FloatDivInt(ToFloat(l.sum_all_amount), l.total_rows)
    ELSE FloatZero

CoreReport(l) ==
  [metrics |-> SummaryOf(l, CoreAvg(l)),
   observability |-> [invalid_amounts |-> l.invalid]]

\* reporting/core.py: amount_raw as line 25 computes it.
ReportingAmountRaw(r) == Strip(Or(Get(r, "amount_cents", None), <<"0">>))

\* reporting/core.py: the try/except around int(amount_raw); invalid is the
\* increment of observability["invalid_amounts"].
ReportingAmount(amount_raw) ==
  IF IntValid(amount_raw)
    THEN [amount |-> BigIntValue(amount_raw), invalid |-> 0]
    ELSE [amount |-> BigZero, invalid |-> 1]

\* reporting/core.py: the loop body of aggregate_transactions, the locals.
ReportingStep(l, r) ==
  LET status == Strip(Or(Get(r, "status", None), <<>>))
  IN Accumulate(l, status, ReportingAmount(ReportingAmountRaw(r)).amount)

\* reporting/core.py: avg_amount = sum_all_amount / total_rows, int by int.
ReportingAvg(l) ==
  IF l.total_rows > 0 THEN BigTrueDiv(l.sum_all_amount, l.total_rows)
  ELSE FloatZero

\* reporting/core.py: the returned dict; o is the observability argument.
ReportingReport(l, o) ==
  [summary |-> [total_rows |-> l.total_rows, completed |-> l.completed,
                failed |-> l.failed,
                sum_completed_amount |-> l.sum_completed_amount,
                avg_amount |-> ReportingAvg(l),
                sum_all_amount |-> l.sum_all_amount],
   meta |-> IF o = <<>> THEN EmptyDict ELSE o[1]]

\* transactions/aggregator.py: amount_raw as line 38 computes it.
TransactionsAmountRaw(r) == Strip(Or(Get(r, "amount_cents", None), <<"0">>))

\* transactions/aggregator.py: _parse_amount, which catches every exception
\* of int() itself.
ParseAmount(amount_raw) ==
  IF IntValid(Strip(amount_raw)) THEN BigIntValue(Strip(amount_raw))
  ELSE BigZero

\* transactions/aggregator.py: the loop body of compute_report; invalid is
\* the local rows_invalid, which only the except clause around _parse_amount
\* increments, and _parse_amount never raises.
TransactionsStep(l, r) ==
  LET status == Strip(Or(Get(r, "status", None), <<>>))
  IN Accumulate(l, status, ParseAmount(TransactionsAmountRaw(r)))

\* transactions/aggregator.py: avg_amount = sum_all_amount / total_rows
TransactionsAvg(l) ==
  IF l.total_rows > 0 THEN BigTrueDiv(l.sum_all_amount, l.total_rows)
  ELSE FloatZero

TransactionsReport(l) ==
  [summary |-> SummaryOf(l, TransactionsAvg(l)),
   meta |-> [rows_read |-> l.total_rows, rows_invalid |-> l.invalid]]

\* What the variants leave alone.
reporter_vars == <<args_format, counters, outputs, agg>>

InitV ==
  /\ csv_file \in VFiles
  /\ InitRest

\* A caller invokes transaction_reporter.generate_structured_report(csv_path).
CallReporter ==
  /\ pc = "Idle"
  /\ entry' = "transaction_reporter"
  /\ loc' = InitLocals
  /\ pc' = "v_open"
  /\ UNCHANGED <<reporter_vars, csv_file, f, row, consumed, exc, obs, report>>

\* A caller invokes core.aggregate_transactions(rows) on a streaming reader.
CallCore ==
  /\ pc = "Idle"
  /\ entry' = "core"
  /\ loc' = InitLocals
  /\ pc' = "v_open"
  /\ UNCHANGED <<reporter_vars, csv_file, f, row, consumed, exc, obs, report>>

\* A caller invokes transactions.aggregator.compute_report(
\* transactions.reader.stream_transactions(csv_path)).
CallTransactions ==
  /\ pc = "Idle"
  /\ entry' = "transactions"
  /\ loc' = InitLocals
  /\ pc' = "v_open"
  /\ UNCHANGED <<reporter_vars, csv_file, f, row, consumed, exc, obs, report>>

\* transactions/reader.py stream_transactions up to the first row (the same
\* statements as in transaction_reporter.py).
VOpen ==
  /\ pc = "v_open"
  /\ IF csv_file.exists
       THEN f' = "open" /\ pc' = "v_stream" /\ exc' = exc
       ELSE f' = f /\ pc' = "raised" /\ exc' = "FileNotFoundError"
  /\ UNCHANGED <<reporter_vars, csv_file, entry, row, consumed, loc, obs,
                 report>>

\* for row in reader: yield row
VYield ==
  /\ pc = "v_stream"
  /\ Len(consumed) < MaxVRows
  /\ \E cells \in VCellsFor(csv_file.fieldnames) :
       /\ row' = DictRow(csv_file.fieldnames, cells)
       /\ consumed' = Append(consumed, row')
  /\ pc' = "v_body"
  /\ UNCHANGED <<reporter_vars, csv_file, entry, f, exc, loc, obs, report>>

\* The reader is exhausted: the with block closes the file.
VExhausted ==
  /\ pc = "v_stream"
  /\ f' = "closed"
  /\ pc' = "v_finalize"
  /\ UNCHANGED <<reporter_vars, csv_file, entry, row, consumed, exc, loc, obs,
                 report>>

\* The loop body of transaction_reporter.generate_structured_report.
LoopBodyBig ==
  /\ pc = "v_body"
  /\ entry = "transaction_reporter"
  /\ IF Get(row, "status", <<>>) = None
          \/ Get(row, "amount_cents", <<"0">>) = None
       THEN /\ loc' = [loc EXCEPT !.total_rows = @ + 1]
            /\ exc' = "AttributeError"
            /\ f' = GeneratorClose(f)
            /\ pc' = "raised"
       ELSE /\ loc' = ReporterStep(loc, row)
            /\ exc' = exc
            /\ f' = f
            /\ pc' = "v_stream"
  /\ UNCHANGED <<reporter_vars, csv_file, entry, row, consumed, obs, report>>

\* The loop body of core.aggregate_transactions.
CoreBody ==
  /\ pc = "v_body"
  /\ entry = "core"
  /\ loc' = CoreStep(loc, row)
  /\ pc' = "v_stream"
  /\ UNCHANGED <<reporter_vars, csv_file, entry, f, row, consumed, exc, obs,
                 report>>

\* The loop body of transactions.aggregator.compute_report.
TransactionsBody ==
  /\ pc = "v_body"
  /\ entry = "transactions"
  /\ loc' = TransactionsStep(loc, row)
  /\ pc' = "v_stream"
  /\ UNCHANGED <<reporter_vars, csv_file, entry, f, row, consumed, exc, obs,
                 report>>

\* After the loop: avg_amount and the returned dict.
VReturn ==
  /\ pc = "v_finalize"
  /\ report' = << CASE entry = "transaction_reporter" -> ReporterReport(loc)
                    [] entry = "core" -> CoreReport(loc)
                    [] entry = "transactions" -> TransactionsReport(loc) >>
  /\ pc' = "returned"
  /\ UNCHANGED <<reporter_vars, csv_file, entry, f, row, consumed, exc, loc,
                 obs>>

\* Updates of the observability argument, which may be None (<<>>).
ObsSetDefault(o, k, v) == IF o = <<>> THEN o ELSE <<SetDefault(o[1], k, v)>>

\* ObsSet that records nothing.
ObsSet_Dropped(o, k, v) == o

ObsSet(o, k, v) == IF o = <<>> THEN o ELSE <<DictSet(o[1], k, v)>>

ObsAdd(o, k, n) == IF o = <<>> THEN o ELSE <<[o[1] EXCEPT ![k] = @ + n]>>

\* A caller invokes reporting.core.aggregate_transactions(
\* reporting.reader.stream_transactions(csv_path, observability),
\* observability), with one dict shared by both or with None; the body of
\* aggregate_transactions runs up to its loop.
CallReporting ==
  /\ pc = "Idle"
  /\ entry' = "reporting"
  /\ loc' = InitLocals
  /\ \E shared \in BOOLEAN :
       obs' = IF shared THEN ObsSetDefault(<<EmptyDict>>, "invalid_amounts", 0)
              ELSE <<>>
  /\ pc' = "r_open"
  /\ UNCHANGED <<reporter_vars, csv_file, f, row, consumed, exc, report>>

\* reporting/reader.py stream_transactions up to the first row: the two
\* setdefault calls and open(); when open() raises, the finally clause
\* records read_time_ms.
ROpen ==
  /\ pc = "r_open"
  /\ LET o == ObsSetDefault(ObsSetDefault(obs, "rows", 0), "malformed_rows", 0)
     IN IF csv_file.exists
          THEN f' = "open" /\ pc' = "r_stream" /\ exc' = exc /\ obs' = o
          ELSE /\ f' = f /\ pc' = "raised" /\ exc' = "FileNotFoundError"
               /\ \E ms \in ElapsedMs : obs' = ObsSet(o, "read_time_ms", ms)
  /\ UNCHANGED <<reporter_vars, csv_file, entry, row, consumed, loc, report>>

\* for row in reader: observability["rows"] += 1; yield row
RYield ==
  /\ pc = "r_stream"
  /\ Len(consumed) < MaxVRows
  /\ \E cells \in VCellsFor(csv_file.fieldnames) :
       /\ row' = DictRow(csv_file.fieldnames, cells)
       /\ consumed' = Append(consumed, row')
  /\ obs' = ObsAdd(obs, "rows", 1)
  /\ pc' = "r_body"
  /\ UNCHANGED <<reporter_vars, csv_file, entry, f, exc, loc, report>>

\* The next row cannot be read (csv.Error for a field over the size limit,
\* UnicodeDecodeError for bytes that are not UTF-8): `for row in reader`
\* raises outside the inner try, the with block closes the file, the finally
\* clause records read_time_ms and the exception leaves the generator.
RReadError ==
  /\ pc = "r_stream"
  /\ Len(consumed) < MaxVRows
  /\ csv_file.fieldnames # <<>>
  /\ f' = "closed"
  /\ \E ms \in ElapsedMs : obs' = ObsSet(obs, "read_time_ms", ms)
  /\ exc' = "csv.Error"
  /\ pc' = "raised"
  /\ UNCHANGED <<reporter_vars, csv_file, entry, row, consumed, loc, report>>

\* The reader is exhausted: the file is closed, read_time_ms recorded.
RExhausted ==
  /\ pc = "r_stream"
  /\ f' = "closed"
  /\ \E ms \in ElapsedMs : obs' = ObsSet(obs, "read_time_ms", ms)
  /\ pc' = "r_finalize"
  /\ UNCHANGED <<reporter_vars, csv_file, entry, row, consumed, exc, loc,
                 report>>

\* The loop body of reporting.core.aggregate_transactions.
ReportingBody ==
  /\ pc = "r_body"
  /\ loc' = ReportingStep(loc, row)
  /\ obs' = ObsAdd(obs, "invalid_amounts",
                   ReportingAmount(ReportingAmountRaw(row)).invalid)
  /\ pc' = "r_stream"
  /\ UNCHANGED <<reporter_vars, csv_file, entry, f, row, consumed, exc,
                 report>>

\* After the loop: avg_amount, summary and the copy of the observability dict.
ReportingReturn ==
  /\ pc = "r_finalize"
  /\ report' = <<ReportingReport(loc, obs)>>
  /\ pc' = "returned"
  /\ UNCHANGED <<reporter_vars, csv_file, entry, f, row, consumed, exc, loc,
                 obs>>

NextV ==
  \/ CallReporter
  \/ CallCore
  \/ CallTransactions
  \/ VOpen
  \/ VYield
  \/ VExhausted
  \/ LoopBodyBig
  \/ CoreBody
  \/ TransactionsBody
  \/ VReturn
  \/ CallReporting
  \/ ROpen
  \/ RYield
  \/ RReadError
  \/ RExhausted
  \/ ReportingBody
  \/ ReportingReturn

SpecV == InitV /\ [][NextV]_vars

----------------------------------------------------------------------------
\* Properties

\* The run is over: the entry function returned or let an exception escape.
Terminal == pc \in {"returned", "raised"}

\* main printed report fields.
ReportPrinted == \E i \in 1..Len(stdout) : stdout[i].payload # <<>>

\* Text that no reading makes a number: it holds a character that is not a
\* digit, a sign, an underscore or whitespace.
NonNumericText(v) ==
  /\ v # None
  /\ \E i \in 1..Len(v) : v[i] \notin Digits \cup {"+", "-", "_"} \cup Whitespace

\* A missing trailing field read as the empty string.
TextOf(v) == IF v = None THEN <<>> ELSE v

\* The trimmed status of a record, for the reference fold.
RefStatus(r) == Strip(TextOf(Get(r, "status", <<>>)))

\* The coerced amount of a record, for the reference fold.
RefAmount(r) ==
  LET t == Strip(TextOf(Get(r, "amount_cents", <<>>))) IN
    IF IntValid(t) THEN IntValue(t) ELSE 0

RefCount(rs, lit) == Cardinality({i \in 1..Len(rs) : RefStatus(rs[i]) = lit})

IsCompleted(r) == RefStatus(r) = completed_lit

\* The sum of the coerced amounts of all records.
RECURSIVE RefSumAll(_)
RefSumAll(rs) ==
  IF rs = <<>> THEN 0 ELSE RefAmount(rs[1]) + RefSumAll(Tail(rs))

\* The sum of the coerced amounts of the completed records.
RECURSIVE RefSumCompleted(_)
RefSumCompleted(rs) ==
  IF rs = <<>> THEN 0
  ELSE (IF IsCompleted(rs[1]) THEN RefAmount(rs[1]) ELSE 0)
         + RefSumCompleted(Tail(rs))

\* C1: once the input file has been opened, no row makes the pass of
\* generate_structured_report raise; short rows are read as empty strings.
C1_OpenedPassNeverRaises ==
  (entry \in ReporterEntries /\ f # "unopened") => exc = "none"

\* C2: in generate_structured_report a record whose amount_cents is empty or
\* absent adds 0 to both sums and does not increment invalid_amounts.
C2_EmptyAmountNotInvalid ==
  [][(LoopBody /\ TextOf(Get(row, "amount_cents", <<>>)) = <<>>) =>
       /\ sum_all_amount' = sum_all_amount
       /\ sum_completed_amount' = sum_completed_amount
       /\ invalid_amounts' = invalid_amounts]_vars

\* C3: in generate_structured_report a record whose amount_cents is
\* non-numeric text adds 0 to both sums, increments invalid_amounts by exactly
\* one, and is counted in total_rows and in the counter matching its status.
C3_NonNumericCountedOnce ==
  [][(LoopBody /\ NonNumericText(Get(row, "amount_cents", <<>>))) =>
       /\ sum_all_amount' = sum_all_amount
       /\ sum_completed_amount' = sum_completed_amount
       /\ invalid_amounts' = invalid_amounts + 1
       /\ rows' = rows + 1
       /\ completed' = completed + (IF IsCompleted(row) THEN 1 ELSE 0)
       /\ failed' = failed + (IF RefStatus(row) = failed_lit THEN 1 ELSE 0)]_vars

\* The summaries the run has produced, each with the sum it averages.
Summaries ==
  (IF structured # <<>>
     THEN {[m |-> structured[1].metrics, sum_all |-> sum_all_amount]} ELSE {})
  \cup
  (IF metrics # <<>>
     THEN {[m |-> metrics[1], sum_all |-> agg.sum_all_amount]} ELSE {})

\* C4 as stated: every produced summary has total_rows = 0 if and only if
\* avg_amount = 0.0.
C4_ZeroRowsIffZeroAvg ==
  \A s \in Summaries : (s.m.total_rows = 0) <=> (s.m.avg_amount = ZeroFloat)

\* C4: in every produced summary total_rows = 0 implies avg_amount = 0.0, and
\* total_rows > 0 implies avg_amount = sum_all_amount / total_rows (which is
\* 0.0 too when the amounts sum to zero).
C4_AvgGuarded ==
  \A s \in Summaries :
    /\ s.m.total_rows = 0 => s.m.avg_amount = ZeroFloat
    /\ s.m.total_rows > 0 =>
         /\ s.m.avg_amount[2] > 0
         /\ s.m.avg_amount[1] * s.m.total_rows = s.sum_all * s.m.avg_amount[2]
         /\ GCD(Abs(s.m.avg_amount[1]), s.m.avg_amount[2]) = 1

C4_Witness ==
  /\ structured # <<>>
  /\ structured[1].metrics.total_rows > 0
  /\ structured[1].metrics.avg_amount = ZeroFloat

\* C5: after any prefix of any sequence of records, completed + failed <=
\* total_rows, in the loop of generate_structured_report and in the
\* MetricsAggregator.
C5_StatusCountsBounded ==
  /\ completed + failed <= rows
  /\ agg.completed + agg.failed <= agg.total_rows

C5_Witness == rows = 2 /\ completed = 1 /\ failed = 1

\* C6: on a zero-byte file the pipeline fails with the empty-input error
\* before any record is produced and returns no report.
C6_EmptyInputFails ==
  (csv_file.exists /\ csv_file.fieldnames = <<>>) =>
    /\ structured = <<>> /\ result = <<>> /\ metrics = <<>>
    /\ ~ReportPrinted
    /\ Terminal => exc = "ValueError"

\* C7: for a nonexistent path generate_report and generate_structured_report
\* raise FileNotFoundError before any record is processed and return no
\* report; main prints the file-not-found message and returns 2.
C7_NotFound ==
  (~csv_file.exists /\ entry \in ReporterEntries
     /\ (entry = "main" => args_format \in FormatChoices)) =>
    /\ consumed = <<>> /\ rows = 0 /\ f = "unopened"
    /\ structured = <<>> /\ result = <<>> /\ ~ReportPrinted
    /\ Terminal =>
         /\ exc = "FileNotFoundError"
         /\ IF entry = "main"
              THEN /\ pc = "returned"
                   /\ exit_code = <<2>>
                   /\ stdout = <<[tag |-> "Error: file not found",
                                  payload |-> <<>>]>>
              ELSE pc = "raised"

C7_Witness ==
  /\ ~csv_file.exists /\ entry = "main" /\ exit_code = <<2>>
  /\ exc = "FileNotFoundError"

\* C8: the caller of main sees a complete report or an error, never a partial
\* report: a report is printed and 0 returned only after the whole pass; an
\* exception in the pass prints no report fields and returns 3 (2 for a
\* missing file); with no arguments main returns 1 without opening a file.
C8_CompleteOrError ==
  entry = "main" =>
    /\ ReportPrinted =>
         /\ pc = "returned" /\ exit_code = <<0>> /\ exc = "none"
         /\ f = "closed"
         /\ structured # <<>>
         /\ structured[1].metrics.total_rows = Len(consumed)
         /\ stdout \in { <<FormatTextReport(structured[1].metrics)>>,
                         <<FormatJsonReport(structured[1])>> }
    /\ exit_code = <<0>> => ReportPrinted
    /\ (Terminal /\ exc \notin {"none", "SystemExit"}) =>
         /\ pc = "returned"
         /\ ~ReportPrinted
         /\ exit_code = <<IF exc = "FileNotFoundError" THEN 2 ELSE 3>>
    /\ args_format = "none" =>
         /\ exit_code = <<1>> /\ f = "unopened" /\ ~ReportPrinted

C8_Witness ==
  /\ entry = "main" /\ exc = "AttributeError" /\ exit_code = <<3>>
  /\ consumed # <<>>

\* C9: main with an existing CSV path and an unrecognised --format value
\* returns exit code 3.
C9_InvalidFormatReturnsThree ==
  (entry = "main" /\ csv_file.exists /\ args_format \notin FormatChoices
     /\ args_format # "none" /\ Terminal) =>
    exit_code = <<3>>

\* C10: the final summary equals the reference fold of the records read:
\* total_rows their number, completed and failed the numbers of records whose
\* trimmed status is exactly the literal, sum_completed_amount the signed sum
\* of the coerced amounts of the completed records, avg_amount the sum of all
\* coerced amounts divided by total_rows.
C10_SummaryIsReferenceFold ==
  structured # <<>> =>
    LET m == structured[1].metrics IN
      /\ m.total_rows = Len(consumed)
      /\ m.completed = RefCount(consumed, completed_lit)
      /\ m.failed = RefCount(consumed, failed_lit)
      /\ m.sum_completed_amount = RefSumCompleted(consumed)
      /\ m.avg_amount[2] > 0
      /\ m.avg_amount[1] * Len(consumed)
           = RefSumAll(consumed) * m.avg_amount[2]
      /\ Len(consumed) = 0 => m.avg_amount = ZeroFloat

C10_Witness ==
  /\ structured # <<>>
  /\ structured[1].metrics.total_rows = 2
  /\ structured[1].metrics.sum_completed_amount < 0
  /\ structured[1].metrics.failed = 1

\* The record has a status field whose trimmed text is neither literal.
OtherStatus(r) ==
  /\ Get(r, "status", <<>>) # None
  /\ Strip(Get(r, "status", <<>>)) \notin {completed_lit, failed_lit}

\* C11: processing a record whose trimmed status is neither 'completed' nor
\* 'failed' adds one to total_rows and the record's coerced amount to
\* sum_all_amount, adds one to invalid_amounts at most and only when the amount
\* is not an integer, and leaves completed, failed and sum_completed_amount
\* unchanged, in the loop of generate_structured_report and in
\* MetricsAggregator.process_transaction.
C11_OtherStatusFrame ==
  [][/\ (LoopBody /\ OtherStatus(row)) =>
          /\ rows' = rows + 1
          /\ sum_all_amount' = sum_all_amount + RefAmount(row)
          /\ invalid_amounts' \in {invalid_amounts, invalid_amounts + 1}
          /\ invalid_amounts' # invalid_amounts =>
               ~IntValid(Strip(TextOf(Get(row, "amount_cents", <<>>))))
          /\ UNCHANGED <<completed, failed, sum_completed_amount>>
     /\ (ProcessTransaction /\ OtherStatus(row)) =>
          agg' = [agg EXCEPT !.total_rows = @ + 1,
                             !.transactions_processed = @ + 1,
                             !.sum_all_amount = @ + RefAmount(row)]]_vars

C11_Witness ==
  /\ entry = "generate_structured_report" /\ pc = "stream"
  /\ OtherStatus(row)
  /\ rows = 1 /\ sum_all_amount = 5 /\ invalid_amounts = 0
  /\ completed = 0 /\ failed = 0 /\ sum_completed_amount = 0

\* C12: Transaction.amount_cents never raises: for a record that has its
\* status, process_transaction raises nothing and adds the coerced amount (0
\* when amount_cents is not an integer, empty or absent) to sum_all_amount.
C12_AmountCentsNeverRaises ==
  [][(ProcessTransaction /\ Get(row, "status", <<>>) # None) =>
       /\ exc' = exc
       /\ agg'.sum_all_amount = agg.sum_all_amount + RefAmount(row)]_vars

FiveFields ==
  {"total_rows", "completed", "failed", "sum_completed_amount", "avg_amount"}

\* C13: generate_report returns exactly the five-field flat summary, with no
\* observability section, and its values are the metrics of the structured
\* report of the same file: the reference fold of the records read.
C13_FlatSummary ==
  result # <<>> =>
    LET m == result[1] IN
      /\ DOMAIN m = FiveFields
      /\ structured # <<>> /\ m = structured[1].metrics
      /\ m.total_rows = Len(consumed)
      /\ m.completed = RefCount(consumed, completed_lit)
      /\ m.failed = RefCount(consumed, failed_lit)
      /\ m.sum_completed_amount = RefSumCompleted(consumed)
      /\ m.avg_amount = AvgAmount(RefSumAll(consumed), Len(consumed))

C13_Witness ==
  /\ entry = "generate_report" /\ pc = "returned"
  /\ result # <<>>
  /\ result[1].total_rows = 2 /\ result[1].completed = 1
  /\ result[1].sum_completed_amount = 5

\* The locals of the loop are the fold of the records rs.
FoldOf(rs) ==
  /\ rows = Len(rs)
  /\ completed = RefCount(rs, completed_lit)
  /\ failed = RefCount(rs, failed_lit)
  /\ sum_completed_amount = RefSumCompleted(rs)
  /\ sum_all_amount = RefSumAll(rs)

\* C14: records are pulled one at a time and folded in file order: whenever
\* the next record can be pulled the counters are the fold of exactly the
\* records pulled so far, and while record k is processed it is the one record
\* held and the counters are the fold of the k - 1 records before it.
C14_LazyInOrder ==
  entry \in ReporterEntries =>
    /\ pc = "stream" => FoldOf(consumed)
    /\ pc = "body" =>
         /\ consumed # <<>>
         /\ row = consumed[Len(consumed)]
         /\ FoldOf(SubSeq(consumed, 1, Len(consumed) - 1))
    /\ pc \in {"stream", "body"} => f = "open" /\ structured = <<>>

C14_Witness ==
  /\ entry \in ReporterEntries /\ pc = "body"
  /\ Len(consumed) = 2 /\ rows = 1 /\ sum_all_amount = 5 /\ completed = 1

C16_CountersMonotone ==
  [][/\ agg'.total_rows >= agg.total_rows
     /\ agg'.completed >= agg.completed
     /\ agg'.failed >= agg.failed
     /\ ProcessTransaction => agg'.total_rows = agg.total_rows + 1
     /\ (GetMetrics \/ GetFullReport) => agg' = agg]_vars

C16_Witness ==
  /\ full_report # <<>>
  /\ agg.total_rows = 2 /\ agg.completed = 1 /\ agg.failed = 1
  /\ full_report[1].metrics.total_rows = 2

\* C17: in core.aggregate_transactions invalid_amounts counts exactly the rows
\* whose trimmed amount fails integer parsing; a row whose amount parses as an
\* integer, in any textual form of any value, zero included, is not counted.
C17_InvalidIffUnparsable ==
  [][CoreBody =>
       loc'.invalid =
         loc.invalid + (IF IntValid(CoreAmountRaw(row)) THEN 0 ELSE 1)]_vars

\* C18: transactions.aggregator.compute_report counts in meta.rows_invalid
\* every row whose amount is not an integer.
C18_InvalidRowsCounted ==
  (entry = "transactions" /\ report # <<>>) =>
    report[1].meta.rows_invalid =
      Cardinality({i \in 1..Len(consumed) :
                     ~IntValid(TransactionsAmountRaw(consumed[i]))})

\* C19: with an observability dict, a row that raises while it is being read
\* is counted in malformed_rows and reporting.reader.stream_transactions goes
\* on streaming.
C19_ReadErrorCounted ==
  [][(RReadError /\ obs # <<>>) =>
       /\ obs'[1]["malformed_rows"] = obs[1]["malformed_rows"] + 1
       /\ exc' = exc
       /\ pc' = "r_stream"]_vars

Variants == {"transaction_reporter", "core", "reporting", "transactions"}

\* Every row carries status and amount_cents as text.
StringRows(rs) ==
  \A i \in 1..Len(rs) :
    /\ {"status", "amount_cents"} \subseteq DOMAIN rs[i]
    /\ rs[i]["status"] # None /\ rs[i]["amount_cents"] # None

StepOf(v, l, r) ==
  CASE v = "transaction_reporter" -> ReporterStep(l, r)
    [] v = "core" -> CoreStep(l, r)
    [] v = "reporting" -> ReportingStep(l, r)
    [] v = "transactions" -> TransactionsStep(l, r)

AvgOf(v, l) ==
  CASE v = "transaction_reporter" -> ReporterAvg(l)
    [] v = "core" -> CoreAvg(l)
    [] v = "reporting" -> ReportingAvg(l)
    [] v = "transactions" -> TransactionsAvg(l)

\* The locals of variant v after its loop has run over the rows rs.
RECURSIVE FoldLocals(_, _, _)
FoldLocals(v, l, rs) ==
  IF rs = <<>> THEN l ELSE FoldLocals(v, StepOf(v, l, rs[1]), Tail(rs))

\* The five summary values variant v computes for the rows rs.
VariantSummary(v, rs) ==
  LET l == FoldLocals(v, InitLocals, rs) IN SummaryOf(l, AvgOf(v, l))

\* The five summary values in a returned report.
Summary5(rep) ==
  LET s == IF "metrics" \in DOMAIN rep THEN rep.metrics ELSE rep.summary
  IN [k \in FiveFields |-> s[k]]

\* C20: on rows whose status and amount_cents are text, the report a variant
\* returns has the five summary values every other variant computes for the
\* same rows.
C20_VariantsAgree ==
  (report # <<>> /\ StringRows(consumed)) =>
    \A v \in Variants : Summary5(report[1]) = VariantSummary(v, consumed)

\* C21: with one observability dict shared by reporting.reader.
\* stream_transactions and reporting.core.aggregate_transactions and the
\* stream read to exhaustion, the reader's finally clause has run before the
\* report is assembled: read_time_ms is absent while rows are streamed and
\* present, with the file closed, once the loop has ended; the returned meta
\* is the shared dict, holds read_time_ms, has rows = summary.total_rows and
\* invalid_amounts <= rows.
C21_SharedObservability ==
  (entry = "reporting" /\ obs # <<>>) =>
    /\ pc \in {"r_stream", "r_body"} => "read_time_ms" \notin DOMAIN obs[1]
    /\ pc = "r_finalize" =>
         /\ "read_time_ms" \in DOMAIN obs[1]
         /\ f = "closed" /\ report = <<>>
    /\ report # <<>> =>
         LET meta == report[1].meta
             summary == report[1].summary
         IN /\ meta = obs[1]
            /\ "read_time_ms" \in DOMAIN meta
            /\ meta["read_time_ms"] \in ElapsedMs
            /\ meta["rows"] = summary.total_rows
            /\ meta["rows"] = Len(consumed)
            /\ meta["invalid_amounts"] <= meta["rows"]
            /\ meta["invalid_amounts"] >= 0

C21_Witness ==
  /\ entry = "reporting" /\ obs # <<>> /\ report # <<>>
  /\ report[1].summary.total_rows = 2
  /\ report[1].meta["rows"] = 2
  /\ report[1].meta["invalid_amounts"] = 1
  /\ "read_time_ms" \in DOMAIN report[1].meta

====
